---- MODULE Spec2Model ----
(***************************************************************************)
(* RankPruning (confidentlearning/classification.py): the fit orchestrator *)
(* of the label-noise pipeline, its instance artifacts, and the delegating *)
(* predict / predict_proba.                                                *)
(*                                                                         *)
(* Numbers are exact rationals <<n, d>> (d > 0, reduced); the float        *)
(* specials of numpy are <<1, 0>> (inf), <<-1, 0>> (-inf), <<0, 0>> (nan). *)
(* Class k is index k of a matrix (0-based, as in the source); example i   *)
(* is position i of X, s, psx and the noise mask (1-based sequences).      *)
(***************************************************************************)
EXTENDS Integers, Sequences, FiniteSets, TLC

VARIABLES
    clf,                    \* self.clf: the external classifier and what it was last trained on
    seed,                   \* self.seed
    K,                      \* self.K
    ps,                     \* self.ps
    py,                     \* self.py
    noise_matrix,           \* self.noise_matrix
    inverse_noise_matrix,   \* self.inverse_noise_matrix
    confident_joint,        \* self.confident_joint
    noise_mask,             \* self.noise_mask
    sample_weight,          \* self.sample_weight
    call,                   \* the arguments (and collaborator outcomes) of the latest call
    ret,                    \* how the latest call ended: returned value or raised error
    log,                    \* the estimation, algebra, pruning and classifier operations
                            \* the latest call invoked, in order
    stamp,                  \* for each artifact, the number of the call that last assigned it
    calls                   \* number of calls made on the instance so far

vars == <<clf, seed, K, ps, py, noise_matrix, inverse_noise_matrix, confident_joint,
          noise_mask, sample_weight, call, ret, log, stamp, calls>>

\* ---------------------------------------------------------------- bounds
NumExamples == 3            \* N: rows of X / length of s in every fit call
MaxCalls == 1               \* under Spec, fit is among the first MaxCalls calls on an instance
SeqCalls == MaxCalls + 1    \* calls of any kind made on one instance

\* ------------------------------------------------- absent values (Python)
Unset == << >>              \* an attribute that was never assigned
None == <<0, 0, 0>>         \* Python None
Some(v) == <<v>>            \* an assigned / supplied value
IsSome(o) == Len(o) = 1
Get(o) == o[1]

\* ------------------------------------------------------ float arithmetic
RECURSIVE GCD(_, _)
GCD(a, b) == IF b = 0 THEN a ELSE GCD(b, a % b)

Abs(n) == IF n < 0 THEN -n ELSE n
Sign(n) == IF n < 0 THEN -1 ELSE IF n = 0 THEN 0 ELSE 1

\* n/d as a value: x/0 is inf or -inf, 0/0 is nan (numpy float division)
Norm(n, d) ==
    IF d = 0 THEN <<Sign(n), 0>>
    ELSE LET g == GCD(Abs(n), Abs(d))
         IN  <<Sign(d) * (n \div g), Abs(d) \div g>>

\* a numpy array held in memory: the function f with every entry computed
ndarray(f) == f @@ << >>

Zero == <<0, 1>>
One == <<1, 1>>
Inf == <<1, 0>>
NaN == <<0, 0>>
IsFinite(a) == a[2] # 0

RAdd(a, b) == Norm(a[1] * b[2] + b[1] * a[2], a[2] * b[2])
RMul(a, b) == Norm(a[1] * b[1], a[2] * b[2])
RDiv(a, b) == Norm(a[1] * b[2], a[2] * b[1])
\* a <= b on finite values; any comparison with nan is False
RLeq(a, b) == IsFinite(a) /\ IsFinite(b) /\ a[1] * b[2] <= b[1] * a[2]

RECURSIVE RSum(_, _, _)
\* sum of f[k] for k in lo..hi (numpy sum over an axis)
RSum(f, lo, hi) == IF lo > hi THEN Zero ELSE RAdd(f[lo], RSum(f, lo + 1, hi))

\* np.trace(m) for a KK x KK matrix
Trace(m, KK) == RSum([k \in 0..(KK - 1) |-> m[k][k]], 0, KK - 1)

\* ---------------------------------------------------------------- inputs
Examples == 1..NumExamples

\* X: the feature matrix; row i is opaque to the orchestrator and is
\* identified here by the number 10 + i
FeatureMatrix == [i \in Examples |-> 10 + i]

\* len(np.unique(s))
NumClasses(s) == Cardinality({s[i] : i \in DOMAIN s})

\* s: noisy labels 0..K-1 with no label skipped, for K = 2..N classes, the
\* examples labelled in rotation (1, 2, .., K-1, 0, 1, ..)
LabelVectors == {[i \in Examples |-> i % KK] : KK \in 2..NumExamples}

Half == <<1, 2>>

\* K x K matrices a caller may pass as noise_matrix / inverse_noise_matrix
\* (columns sum to 1): the identity with column c changed
IdentityMatrix(KK) ==
    [r \in 0..(KK - 1) |-> [c \in 0..(KK - 1) |-> IF r = c THEN One ELSE Zero]]

\* column c keeps half of its mass on the diagonal, half goes to the next class
HalfFlip(KK, c) ==
    [r \in 0..(KK - 1) |-> [cc \in 0..(KK - 1) |->
        IF cc # c THEN IdentityMatrix(KK)[r][cc]
        ELSE IF r = c \/ r = (c + 1) % KK THEN Half ELSE Zero]]

\* column c has all of its mass on the next class (diagonal entry 0)
FullFlip(KK, c) ==
    [r \in 0..(KK - 1) |-> [cc \in 0..(KK - 1) |->
        IF cc # c THEN IdentityMatrix(KK)[r][cc]
        ELSE IF r = (c + 1) % KK THEN One ELSE Zero]]

\* every column has all of its mass on the next class (trace 0)
FlipAll(KK) ==
    [r \in 0..(KK - 1) |-> [c \in 0..(KK - 1) |-> IF r = (c + 1) % KK THEN One ELSE Zero]]

NoiseMatrixArgs(KK) == {None, Some(HalfFlip(KK, 0)), Some(FullFlip(KK, 0))}
InverseNoiseMatrixArgs(KK) == {None, Some(HalfFlip(KK, 1)), Some(FlipAll(KK))}

\* psx rows: example i gives (N + 1 - i)/(N + 1) to its observed label and
\* the rest to the next class
SoftPsx(s) ==
    LET n == Len(s)
        KK == NumClasses(s)
    IN  ndarray([i \in DOMAIN s |-> ndarray([k \in 0..(KK - 1) |->
            IF k = s[i] THEN Norm(n + 1 - i, n + 1)
            ELSE IF k = (s[i] + 1) % KK THEN Norm(i, n + 1)
            ELSE Zero])])

PsxArgs(s) == {None, Some(SoftPsx(s))}
\* pulearning: the class declared free of noise (class 0 carries the noise of
\* the noise matrices above, class 1 does not)
PulearningArgs(s) == {None, Some(0), Some(1)}

\* ------------------------------------------ collaborators (other modules)
\* util.value_counts(s): number of examples of each class
value_counts(s, KK) ==
    ndarray([k \in 0..(KK - 1) |-> Cardinality({i \in DOMAIN s : s[i] = k})])

\* util.remove_noise_from_class: column class_without_noise becomes the
\* identity column
remove_noise_from_class(nm, class_without_noise) ==
    ndarray([r \in DOMAIN nm |-> ndarray([c \in DOMAIN nm[r] |->
        IF c # class_without_noise THEN nm[r][c]
        ELSE IF r = c THEN One ELSE Zero])])

\* latent_algebra.compute_noise_matrix_from_inverse:
\*   py = inverse_noise_matrix . ps
\*   noise_matrix[k_s][k_y] = inverse_noise_matrix[k_y][k_s] * ps[k_s] / py[k_y]
compute_noise_matrix_from_inverse(ps_, inm) ==
    LET KK == Cardinality(DOMAIN ps_)
        py_ == ndarray([ky \in 0..(KK - 1) |->
                  RSum([ks \in 0..(KK - 1) |-> RMul(inm[ky][ks], ps_[ks])], 0, KK - 1)])
    IN  ndarray([ks \in 0..(KK - 1) |-> ndarray([ky \in 0..(KK - 1) |->
            RDiv(RMul(inm[ky][ks], ps_[ks]), py_[ky])])])

\* the matrix m (n x n) without row 0 and column c
Minor(m, n, c) ==
    ndarray([i \in 0..(n - 2) |->
        ndarray([j \in 0..(n - 2) |-> m[i + 1][IF j >= c THEN j + 1 ELSE j]])])

RECURSIVE Det(_, _)
\* determinant by expansion along row 0
Det(m, n) ==
    IF n = 1 THEN m[0][0]
    ELSE RSum([c \in 0..(n - 1) |->
                  RMul(IF c % 2 = 0 THEN m[0][c] ELSE RMul(<<-1, 1>>, m[0][c]),
                       Det(Minor(m, n, c), n - 1))], 0, n - 1)

\* latent_algebra.compute_py_inv_noise_matrix: py solves noise_matrix . py = ps
\* (Cramer's rule); inverse_noise_matrix[k_y][k_s] = noise_matrix[k_s][k_y] * py[k_y] / ps[k_s].
\* A singular noise matrix has no solution: the call raises.
compute_py_inv_noise_matrix(ps_, nm) ==
    LET KK == Cardinality(DOMAIN ps_)
        d == Det(nm, KK)
        py_ == ndarray([k \in 0..(KK - 1) |->
                  RDiv(Det([r \in 0..(KK - 1) |-> [c \in 0..(KK - 1) |->
                               IF c = k THEN ps_[r] ELSE nm[r][c]]], KK), d)])
    IN  IF d = Zero
        THEN [raised |-> TRUE, py |-> << >>, inverse_noise_matrix |-> << >>]
        ELSE [raised |-> FALSE,
              py |-> py_,
              inverse_noise_matrix |->
                  ndarray([ky \in 0..(KK - 1) |-> ndarray([ks \in 0..(KK - 1) |->
                      RDiv(RMul(nm[ks][ky], py_[ky]), ps_[ks])])])]

\* Confident joints the Confident-Joint Estimator may count for labels s:
\* "mixed": one example of class 0 is counted as class 1, every other example
\*          on the diagonal; "shift": every example of class k is counted as
\*          class k+1 (no example on the diagonal)
ConfidentJoint(s, kind) ==
    LET KK == NumClasses(s)
        n == value_counts(s, KK)
    IN  ndarray([ks \in 0..(KK - 1) |-> ndarray([ky \in 0..(KK - 1) |->
            IF kind = "shift" THEN (IF ky = (ks + 1) % KK THEN n[ks] ELSE 0)
            ELSE IF ks = 0 /\ ky = 0 THEN n[0] - 1
            ELSE IF ks = 0 /\ ky = 1 THEN 1
            ELSE IF ks = ky THEN n[ks] ELSE 0])])

\* latent_estimation.estimate_py_and_noise_matrices_from_probabilities, after
\* the confident joint cj has been counted: inverse_noise_matrix[k_y][k_s] =
\* cj[k_s][k_y] / sum(cj[k_s]); the joint is inverse_noise_matrix * ps; py its
\* column sums; noise_matrix the joint divided by py
estimate_from_confident_joint(s, cj) ==
    LET KK == NumClasses(s)
        ps_ == ndarray([k \in 0..(KK - 1) |-> Norm(value_counts(s, KK)[k], Len(s))])
        rowsum == ndarray([ks \in 0..(KK - 1) |->
                     RSum([ky \in 0..(KK - 1) |-> <<cj[ks][ky], 1>>], 0, KK - 1)])
        inm == ndarray([ky \in 0..(KK - 1) |-> ndarray([ks \in 0..(KK - 1) |->
                   RDiv(<<cj[ks][ky], 1>>, rowsum[ks])])])
    IN  [py |-> ndarray([ky \in 0..(KK - 1) |->
                   RSum([ks \in 0..(KK - 1) |-> RMul(inm[ky][ks], ps_[ks])], 0, KK - 1)]),
         noise_matrix |-> compute_noise_matrix_from_inverse(ps_, inm),
         inverse_noise_matrix |-> inm,
         confident_joint |-> cj]

\* np.round of a finite value: to the nearest integer, halves to the even one
Round(a) ==
    LET q == a[1] \div a[2]
        r == a[1] - q * a[2]
    IN  IF 2 * r < a[2] THEN q
        ELSE IF 2 * r > a[2] THEN q + 1
        ELSE IF q % 2 = 0 THEN q ELSE q + 1

\* pruning.get_noise_indices with prune_method = 'prune_by_noise_rate' and
\* prune_count_method = 'inverse_nm_dot_s': for every pair k_s # k_y the
\* count is inverse_noise_matrix[k_y][k_s] * (number of examples labelled k_s);
\* the examples labelled k_s are ranked by psx[.][k_y] descending (ties by
\* index) and the top count are marked
get_noise_indices(s, psx_, inm, cj) ==
    LET KK == NumClasses(s)
        n == value_counts(s, KK)
        count(ks, ky) == Round(RMul(inm[ky][ks], <<n[ks], 1>>))
        before(j, i, ky) ==
            \/ ~RLeq(psx_[j][ky], psx_[i][ky])
            \/ psx_[j][ky] = psx_[i][ky] /\ j < i
        rank(i, ky) == Cardinality({j \in DOMAIN s : s[j] = s[i] /\ before(j, i, ky)})
    IN  ndarray([i \in DOMAIN s |->
            \E ky \in 0..(KK - 1) : ky # s[i] /\ rank(i, ky) < count(s[i], ky)])

\* ----------------------------------------------------- RankPruning.fit
Artifacts == {"K", "ps", "py", "noise_matrix", "inverse_noise_matrix",
              "confident_joint", "noise_mask", "sample_weight"}

\* the instance as fit sees it on entry, with its local psx, the operations
\* invoked so far and the error raised (if any)
Frame(c) ==
    [clf |-> clf, seed |-> seed, K |-> K, ps |-> ps, py |-> py,
     noise_matrix |-> noise_matrix, inverse_noise_matrix |-> inverse_noise_matrix,
     confident_joint |-> confident_joint, noise_mask |-> noise_mask,
     sample_weight |-> sample_weight,
     psx |-> c.psx, log |-> << >>, stamp |-> stamp, raised |-> ""]

\* f with the artifacts named in `names` marked as assigned by call n
Stamped(f, names, n) ==
    [f EXCEPT !.stamp = [a \in Artifacts |-> IF a \in names THEN n ELSE f.stamp[a]]]

Logged(f, op, args) == [f EXCEPT !.log = Append(f.log, [op |-> op, args |-> args])]

\* the trace check made on the noise matrix only
CheckNoiseMatrixOnly(f, c) ==
    IF IsSome(c.noise_matrix) /\ RLeq(Trace(Get(c.noise_matrix), NumClasses(c.s)), One)
    THEN [f EXCEPT !.raised = "Trace(noise_matrix) must exceed 1."]
    ELSE f

\* # Check inputs: the two trace checks (assert_inputs_are_valid passes: every
\* X, s and psx of FitArgs is well-formed)
CheckInputs(f, c) ==
    IF IsSome(c.noise_matrix) /\ RLeq(Trace(Get(c.noise_matrix), NumClasses(c.s)), One)
    THEN [f EXCEPT !.raised = "Trace(noise_matrix) must exceed 1."]
    ELSE IF IsSome(c.inverse_noise_matrix)
            /\ RLeq(Trace(Get(c.inverse_noise_matrix), NumClasses(c.s)), One)
    THEN [f EXCEPT !.raised = "Trace(inverse_noise_matrix) must exceed 1."]
    ELSE f

\* self.K, self.ps, self.confident_joint = None
AssignPriors(f, c, n) ==
    LET KK == NumClasses(c.s)
    IN  Stamped([f EXCEPT !.K = Some(KK),
                          !.ps = Some(ndarray([k \in 0..(KK - 1) |->
                                          Norm(value_counts(c.s, KK)[k], Len(c.s))])),
                          !.confident_joint = None],
                {"K", "ps", "confident_joint"}, n)

\* if noise_matrix is not None: ...
UseNoiseMatrix(f, c, n) ==
    IF ~IsSome(c.noise_matrix) THEN f
    ELSE LET f1 == Stamped([f EXCEPT !.noise_matrix = c.noise_matrix], {"noise_matrix"}, n)
         IN  IF IsSome(c.inverse_noise_matrix) THEN f1
             ELSE LET r == compute_py_inv_noise_matrix(Get(f1.ps), Get(f1.noise_matrix))
                      f2 == Logged(f1, "compute_py_inv_noise_matrix", <<f1.ps, f1.noise_matrix>>)
                  IN  IF r.raised THEN [f2 EXCEPT !.raised = "LinAlgError"]
                      ELSE Stamped([f2 EXCEPT !.py = Some(r.py),
                                              !.inverse_noise_matrix = Some(r.inverse_noise_matrix)],
                                   {"py", "inverse_noise_matrix"}, n)

\* the missing noise matrix taken to be the transpose of the inverse noise
\* matrix, the priors left out
UseInverseNoiseMatrixTransposed(f, c, n) ==
    IF ~IsSome(c.inverse_noise_matrix) THEN f
    ELSE LET f1 == Stamped([f EXCEPT !.inverse_noise_matrix = c.inverse_noise_matrix],
                           {"inverse_noise_matrix"}, n)
             inm == Get(c.inverse_noise_matrix)
         IN  IF IsSome(c.noise_matrix) THEN f1
             ELSE Stamped(
                    [Logged(f1, "compute_noise_matrix_from_inverse",
                            <<f1.ps, f1.inverse_noise_matrix>>)
                        EXCEPT !.noise_matrix =
                            Some(ndarray([ks \in DOMAIN inm |->
                                     ndarray([ky \in DOMAIN inm |-> inm[ky][ks]])]))],
                    {"noise_matrix"}, n)

\* if inverse_noise_matrix is not None: ...
UseInverseNoiseMatrix(f, c, n) ==
    IF ~IsSome(c.inverse_noise_matrix) THEN f
    ELSE LET f1 == Stamped([f EXCEPT !.inverse_noise_matrix = c.inverse_noise_matrix],
                           {"inverse_noise_matrix"}, n)
         IN  IF IsSome(c.noise_matrix) THEN f1
             ELSE Stamped(
                    [Logged(f1, "compute_noise_matrix_from_inverse",
                            <<f1.ps, f1.inverse_noise_matrix>>)
                        EXCEPT !.noise_matrix =
                            Some(compute_noise_matrix_from_inverse(
                                    Get(f1.ps), Get(f1.inverse_noise_matrix)))],
                    {"noise_matrix"}, n)

\* if noise_matrix is None and inverse_noise_matrix is None: estimate, with
\* cross-validation when psx is None
Estimate(f, c, n) ==
    IF IsSome(c.noise_matrix) \/ IsSome(c.inverse_noise_matrix) THEN f
    ELSE IF ~IsSome(f.psx)
    THEN LET f1 == Logged(f, "estimate_py_noise_matrices_and_cv_pred_proba",
                          <<c.X, c.s, c.cv_n_folds, c.thresholds,
                            c.converge_latent_estimates, f.seed>>)
             e == estimate_from_confident_joint(c.s, ConfidentJoint(c.s, c.env.estimate))
         IN  IF c.env.estimate = "raise"
             THEN [f1 EXCEPT !.raised = "InsufficientDataError"]
             ELSE Stamped([f1 EXCEPT !.py = Some(e.py),
                                     !.noise_matrix = Some(e.noise_matrix),
                                     !.inverse_noise_matrix = Some(e.inverse_noise_matrix),
                                     !.confident_joint = Some(e.confident_joint),
                                     !.psx = Some(SoftPsx(c.s))],
                          {"py", "noise_matrix", "inverse_noise_matrix", "confident_joint"}, n)
    ELSE LET f1 == Logged(f, "estimate_py_and_noise_matrices_from_probabilities",
                          <<c.s, f.psx, c.thresholds, c.converge_latent_estimates>>)
             e == estimate_from_confident_joint(c.s, ConfidentJoint(c.s, c.env.estimate))
         IN  Stamped([f1 EXCEPT !.py = Some(e.py),
                                !.noise_matrix = Some(e.noise_matrix),
                                !.inverse_noise_matrix = Some(e.inverse_noise_matrix),
                                !.confident_joint = Some(e.confident_joint)],
                     {"py", "noise_matrix", "inverse_noise_matrix", "confident_joint"}, n)

\* the stand-alone cross-validation decided on the psx argument as passed,
\* not on the local psx the combined estimator may have filled in
CrossValidateOnArgument(f, c) ==
    IF IsSome(c.psx) THEN f
    ELSE LET f1 == Logged(f, "estimate_cv_predicted_probabilities",
                          <<c.X, c.s, c.cv_n_folds, f.seed>>)
         IN  IF c.env.cv = "raise"
             THEN [f1 EXCEPT !.raised = "InsufficientDataError"]
             ELSE [f1 EXCEPT !.psx = Some(SoftPsx(c.s))]

\* if psx is None: psx = estimate_cv_predicted_probabilities(...)
CrossValidate(f, c) ==
    IF IsSome(f.psx) THEN f
    ELSE LET f1 == Logged(f, "estimate_cv_predicted_probabilities",
                          <<c.X, c.s, c.cv_n_folds, f.seed>>)
         IN  IF c.env.cv = "raise"
             THEN [f1 EXCEPT !.raised = "InsufficientDataError"]
             ELSE [f1 EXCEPT !.psx = Some(SoftPsx(c.s))]

\* the adjustment guarded by `if pulearning:` (class 0 is falsy)
PositiveUnlabeledTruthy(f, c, n) ==
    IF ~IsSome(c.pulearning) \/ Get(c.pulearning) = 0 THEN f
    ELSE Stamped(
            [Logged(f, "remove_noise_from_class", <<f.noise_matrix, c.pulearning>>)
                EXCEPT !.noise_matrix =
                    Some(remove_noise_from_class(Get(f.noise_matrix), Get(c.pulearning)))],
            {"noise_matrix"}, n)

\* the adjustment applied to the inverse noise matrix as well (the TODO of
\* the source carried out)
PositiveUnlabeledBoth(f, c, n) ==
    IF ~IsSome(c.pulearning) THEN f
    ELSE Stamped(
            [Logged(f, "remove_noise_from_class", <<f.noise_matrix, c.pulearning>>)
                EXCEPT !.noise_matrix =
                    Some(remove_noise_from_class(Get(f.noise_matrix), Get(c.pulearning))),
                       !.inverse_noise_matrix =
                    Some(remove_noise_from_class(Get(f.inverse_noise_matrix),
                                                 Get(c.pulearning)))],
            {"noise_matrix", "inverse_noise_matrix"}, n)

\* if pulearning is not None: self.noise_matrix = remove_noise_from_class(...)
PositiveUnlabeled(f, c, n) ==
    IF ~IsSome(c.pulearning) THEN f
    ELSE Stamped(
            [Logged(f, "remove_noise_from_class", <<f.noise_matrix, c.pulearning>>)
                EXCEPT !.noise_matrix =
                    Some(remove_noise_from_class(Get(f.noise_matrix), Get(c.pulearning)))],
            {"noise_matrix"}, n)

\* self.noise_mask = get_noise_indices(...)
Prune(f, c, n) ==
    Stamped(
        [Logged(f, "get_noise_indices",
                <<c.s, f.psx, f.inverse_noise_matrix, f.confident_joint,
                  c.prune_method, c.prune_count_method, c.converge_latent_estimates>>)
            EXCEPT !.noise_mask =
                Some(get_noise_indices(c.s, Get(f.psx), Get(f.inverse_noise_matrix),
                                       f.confident_joint))],
        {"noise_mask"}, n)

RECURSIVE Compress(_, _)
\* a[mask]: the entries of a whose mask entry is True, in order
Compress(a, mask) ==
    IF Len(a) = 0 THEN << >>
    ELSE (IF mask[1] THEN <<a[1]>> ELSE << >>)
         \o Compress(Tail(a), Tail(mask))

\* X_mask = ~self.noise_mask
X_mask(f) == [i \in DOMAIN Get(f.noise_mask) |-> ~Get(f.noise_mask)[i]]
X_pruned(f, c) == Compress(c.X, X_mask(f))
s_pruned(f, c) == Compress(c.s, X_mask(f))

\* the weights set to the diagonal entry itself, the reciprocal forgotten
ReweightByDiagonal(w, sp, nm, k, KK) == ndarray([i \in DOMAIN w |-> nm[sp[i]][sp[i]]])

RECURSIVE ReweightLoop(_, _, _, _, _)
\* for k in range(self.K): self.sample_weight[s_pruned == k] = 1.0 / self.noise_matrix[k][k]
ReweightLoop(w, sp, nm, k, KK) ==
    IF k >= KK THEN w
    ELSE ReweightLoop(ndarray([i \in DOMAIN w |->
                                  IF sp[i] = k THEN RDiv(One, nm[k][k]) ELSE w[i]]),
                      sp, nm, k + 1, KK)

\* self.sample_weight = np.ones(np.shape(s_pruned)), then the loop
Reweight(f, c, n) ==
    LET sp == s_pruned(f, c)
    IN  Stamped([f EXCEPT !.sample_weight =
                    Some(ReweightLoop([i \in DOMAIN sp |-> One], sp,
                                      Get(f.noise_matrix), 0, Get(f.K)))],
                {"sample_weight"}, n)

\* the final training given every example, the pruned ones included
FinalFitUnpruned(f, c) ==
    LET f1 == Logged(f, "clf.fit", <<c.X, c.s, f.sample_weight>>)
    IN  IF c.env.training = "raise"
        THEN [f1 EXCEPT !.raised = "clf.fit failed"]
        ELSE [f1 EXCEPT !.clf = [fitted |-> Some([X |-> c.X, y |-> c.s,
                                                  sample_weight |-> Get(f.sample_weight)])]]

\* self.clf.fit(X_pruned, s_pruned, sample_weight=self.sample_weight)
FinalFit(f, c) ==
    LET f1 == Logged(f, "clf.fit", <<X_pruned(f, c), s_pruned(f, c), f.sample_weight>>)
    IN  IF c.env.training = "raise"
        THEN [f1 EXCEPT !.raised = "clf.fit failed"]
        ELSE [f1 EXCEPT !.clf = [fitted |-> Some([X |-> X_pruned(f, c),
                                                  y |-> s_pruned(f, c),
                                                  sample_weight |-> Get(f.sample_weight)])]]

\* the i-th statement of the body of fit
Statement(i, f, c, n) ==
    CASE i = 0 -> CheckInputs(f, c)
      [] i = 1 -> AssignPriors(f, c, n)
      [] i = 2 -> UseNoiseMatrix(f, c, n)
      [] i = 3 -> UseInverseNoiseMatrix(f, c, n)
      [] i = 4 -> Estimate(f, c, n)
      [] i = 5 -> CrossValidate(f, c)
      [] i = 6 -> PositiveUnlabeled(f, c, n)
      [] i = 7 -> Prune(f, c, n)
      [] i = 8 -> Reweight(f, c, n)
      [] i = 9 -> FinalFit(f, c)

RECURSIVE Run(_, _, _, _)
\* the frames fs taken through statements i, i + 1, .., a frame that has
\* raised left as it is
Run(fs, i, c, n) ==
    IF i > 9 THEN fs
    ELSE Run({IF f.raised # "" THEN f ELSE Statement(i, f, c, n) : f \in fs}, i + 1, c, n)

\* the body of fit for call number n with arguments c: the instance and the
\* locals when the call returns or raises
fit(c, n) == CHOOSE f \in Run({Frame(c)}, 0, c, n) : TRUE

\* what the collaborators do in one fit call: which confident joint the
\* estimator counts ("raise": its cross-validation fails for lack of data),
\* whether the stand-alone cross-validation and the final training succeed
Environments == [estimate : {"mixed", "shift", "raise"}, cv : {"ok", "raise"},
                 training : {"ok", "raise"}]

\* an outcome is listed only for a collaborator the call can reach
Reachable(c) ==
    LET valid == CheckInputs([raised |-> ""], c).raised = ""
        supplied == IsSome(c.noise_matrix) \/ IsSome(c.inverse_noise_matrix)
    IN  /\ (c.env.estimate # "mixed") => (valid /\ ~supplied)
        /\ (c.env.estimate = "raise") => ~IsSome(c.psx)
        /\ (c.env.cv # "ok") => (valid /\ supplied /\ ~IsSome(c.psx))
        /\ (c.env.training # "ok") => (valid /\ c.env.estimate # "raise" /\ c.env.cv # "raise")

\* the arguments of a fit call (defaults for the options that are only passed on)
FitArgs ==
    {c \in UNION {[op : {"fit"}, X : {FeatureMatrix}, s : {s},
                   cv_n_folds : {5}, pulearning : PulearningArgs(s), psx : PsxArgs(s),
                   thresholds : {None},
                   noise_matrix : NoiseMatrixArgs(NumClasses(s)),
                   inverse_noise_matrix : InverseNoiseMatrixArgs(NumClasses(s)),
                   prune_method : {"prune_by_noise_rate"},
                   prune_count_method : {"inverse_nm_dot_s"},
                   converge_latent_estimates : {FALSE},
                   env : Environments] : s \in LabelVectors} : Reachable(c)}

\* ---------------------------------------------------------------- actions
\* RankPruning(clf, seed): no artifact exists yet
Init ==
    /\ clf = [fitted |-> Unset]
    /\ seed = None
    /\ K = Unset /\ ps = Unset /\ py = Unset
    /\ noise_matrix = Unset /\ inverse_noise_matrix = Unset
    /\ confident_joint = Unset /\ noise_mask = Unset /\ sample_weight = Unset
    /\ call = [op |-> "__init__"]
    /\ ret = [op |-> "__init__", raised |-> "", value |-> None]
    /\ log = << >>
    /\ stamp = [a \in Artifacts |-> 0]
    /\ calls = 0

Fit(c) ==
    /\ \E f \in {fit(c, calls + 1)} :
           /\ clf' = f.clf
           /\ K' = f.K /\ ps' = f.ps /\ py' = f.py
           /\ noise_matrix' = f.noise_matrix
           /\ inverse_noise_matrix' = f.inverse_noise_matrix
           /\ confident_joint' = f.confident_joint
           /\ noise_mask' = f.noise_mask
           /\ sample_weight' = f.sample_weight
           /\ log' = f.log
           /\ stamp' = f.stamp
           /\ ret' = [op |-> "fit", raised |-> f.raised,
                      value |-> IF f.raised = "" THEN Some(f.clf) ELSE None]
    /\ call' = c
    /\ calls' = calls + 1
    /\ UNCHANGED seed

\* return self.clf.predict(X) / self.clf.predict_proba(X)
Delegate(op, X) ==
    /\ call' = [op |-> op, X |-> X]
    /\ log' = <<[op |-> "clf." \o op, args |-> <<X>>]>>
    /\ ret' = [op |-> op, raised |-> "", value |-> Some([clf |-> clf, op |-> op, X |-> X])]
    /\ calls' = calls + 1
    /\ UNCHANGED <<clf, seed, K, ps, py, noise_matrix, inverse_noise_matrix,
                   confident_joint, noise_mask, sample_weight, stamp>>

\* one more call may be made while fewer than `limit` calls have been made
FitStep(limit) == calls < limit /\ \E c \in FitArgs : Fit(c)

Predict(limit) == calls < limit /\ Delegate("predict", FeatureMatrix)

PredictProba(limit) == calls < limit /\ Delegate("predict_proba", FeatureMatrix)

\* an instance fitted up to MaxCalls times and asked for predictions at any
\* point, a last time after the last fit
Next == FitStep(MaxCalls) \/ Predict(SeqCalls) \/ PredictProba(SeqCalls)

Spec == Init /\ [][Next]_vars

\* the same instance, the call after the last one possibly another fit
NextSeq == FitStep(SeqCalls) \/ Predict(SeqCalls) \/ PredictProba(SeqCalls)

SpecSeq == Init /\ [][NextSeq]_vars

\* ------------------------------------------------------------- properties
\* the latest call was fit / was a fit that returned
FitCalled == call.op = "fit"
FitReturned == FitCalled /\ ret.raised = ""

\* how often the latest call invoked the collaborator operation op
Invocations(op) == Cardinality({i \in DOMAIN log : log[i].op = op})

\* the combined estimator, the Confident-Joint Estimator on given
\* probabilities, the stand-alone Probability Estimator
CombinedEstimator == "estimate_py_noise_matrices_and_cv_pred_proba"
JointEstimator == "estimate_py_and_noise_matrices_from_probabilities"
ProbabilityEstimator == "estimate_cv_predicted_probabilities"

\* m was supplied and its trace is at most 1
TraceAtMostOne(m, s) == IsSome(m) /\ RLeq(Trace(Get(m), NumClasses(s)), One)

\* the latest call was fit and passed the trace checks
Validated ==
    /\ FitCalled
    /\ ~TraceAtMostOne(call.noise_matrix, call.s)
    /\ ~TraceAtMostOne(call.inverse_noise_matrix, call.s)

TraceErrors == {"Trace(noise_matrix) must exceed 1.",
                "Trace(inverse_noise_matrix) must exceed 1."}

\* the latest call assigned none of the artifacts
NoArtifactAssigned == \A a \in Artifacts : stamp[a] < calls

NeverAssigned ==
    /\ K = Unset /\ ps = Unset /\ py = Unset
    /\ noise_matrix = Unset /\ inverse_noise_matrix = Unset
    /\ confident_joint = Unset /\ noise_mask = Unset /\ sample_weight = Unset

\* C1: a fit call given a noise matrix or an inverse noise matrix of trace
\* <= 1 raises the trace error of the first offending matrix, invokes no
\* collaborator (no cross-validation, no training, no estimator) and assigns
\* no artifact; on a fresh instance every artifact is still unset.
C1_InvalidTraceFailsFirst ==
    (FitCalled /\ ~Validated) =>
        /\ ret.raised = (IF TraceAtMostOne(call.noise_matrix, call.s)
                         THEN "Trace(noise_matrix) must exceed 1."
                         ELSE "Trace(inverse_noise_matrix) must exceed 1.")
        /\ log = << >>
        /\ NoArtifactAssigned
        /\ (calls = 1 => NeverAssigned)
        /\ (calls = 1 => clf.fitted = Unset)

\* a noise matrix of trace > 1 came with an inverse noise matrix of trace <= 1
\* and the call was rejected for the inverse
C1_Witness ==
    /\ FitCalled
    /\ IsSome(call.noise_matrix)
    /\ ~TraceAtMostOne(call.noise_matrix, call.s)
    /\ TraceAtMostOne(call.inverse_noise_matrix, call.s)
    /\ ret.raised = "Trace(inverse_noise_matrix) must exceed 1."

\* C4: with neither matrix supplied, a fit call given psx never invokes the
\* Probability Estimator and runs the Confident-Joint Estimator once, on the
\* supplied psx; a fit call without psx runs the combined estimator once and
\* neither of the other two, so probabilities are cross-validated once, and
\* on return py, the matrices and the confident joint are those of this call
\* and the Pruning Engine was handed probabilities.
C4_EstimationPaths ==
    (Validated /\ ~IsSome(call.noise_matrix) /\ ~IsSome(call.inverse_noise_matrix)) =>
        /\ Invocations(ProbabilityEstimator) = 0
        /\ IsSome(call.psx) =>
              /\ Invocations(CombinedEstimator) = 0
              /\ Invocations(JointEstimator) = 1
              /\ log[1].op = JointEstimator /\ log[1].args[2] = call.psx
        /\ ~IsSome(call.psx) =>
              /\ Invocations(CombinedEstimator) = 1
              /\ Invocations(JointEstimator) = 0
              /\ log[1].op = CombinedEstimator
        /\ FitReturned =>
              /\ \A a \in {"py", "noise_matrix", "inverse_noise_matrix", "confident_joint"} :
                     stamp[a] = calls
              /\ IsSome(py) /\ IsSome(noise_matrix) /\ IsSome(inverse_noise_matrix)
              /\ IsSome(confident_joint)
              /\ \E i \in DOMAIN log : log[i].op = "get_noise_indices" /\ IsSome(log[i].args[2])

\* a fit call without matrices and without psx returned
C4_Witness ==
    /\ FitReturned
    /\ ~IsSome(call.noise_matrix) /\ ~IsSome(call.inverse_noise_matrix)
    /\ ~IsSome(call.psx)
    /\ Invocations(CombinedEstimator) = 1

\* the latest call was a validated fit with one or both matrices supplied
PathC == Validated /\ (IsSome(call.noise_matrix) \/ IsSome(call.inverse_noise_matrix))

\* column ky of the stored noise matrix is the one the PU adjustment rewrites
Adjusted(ky) == IsSome(call.pulearning) /\ Get(call.pulearning) = ky

Kept(mask) == {i \in DOMAIN mask : ~mask[i]}
KeptAt(mask, j) == CHOOSE i \in Kept(mask) : Cardinality({h \in Kept(mask) : h <= i}) = j
KeptOf(a, mask) == [j \in 1..Cardinality(Kept(mask)) |-> a[KeptAt(mask, j)]]

\* C6: when fit returns, the sample weights have one entry per kept example,
\* in the order of the kept examples, and the entry of a kept example with
\* observed label k is 1 / noise_matrix[k][k] for the stored noise matrix
\* (float division); a weight of 1 occurs only for a diagonal of 1.
C6_SampleWeights ==
    FitReturned =>
        LET mask == Get(noise_mask)
            w == Get(sample_weight)
            nm == Get(noise_matrix)
            label == KeptOf(call.s, mask)
        IN  /\ DOMAIN w = 1..(NumExamples - Cardinality({i \in DOMAIN mask : mask[i]}))
            /\ \A j \in DOMAIN w : w[j] = RDiv(One, nm[label[j]][label[j]])
            /\ \A j \in DOMAIN w : w[j] = One => nm[label[j]][label[j]] = One

\* fit returned having pruned an example and reweighted a kept one
C6_Witness ==
    /\ FitReturned
    /\ \E i \in Examples : Get(noise_mask)[i]
    /\ \E j \in DOMAIN Get(sample_weight) :
           IsFinite(Get(sample_weight)[j]) /\ Get(sample_weight)[j] # One

\* the latest fit call made again without the pulearning option (fit reads
\* no artifact before it assigns it, so the instance it is made on is
\* immaterial)
WithoutPulearning == fit([call EXCEPT !.pulearning = None], calls)

\* what a call handed to the Pruning Engine
PruningInputs(l) == {l[i].args : i \in {j \in DOMAIN l : l[j].op = "get_noise_indices"}}

\* C9: a fit call with pulearning = c and the same call with pulearning =
\* None end the same way, hand the Pruning Engine the same arguments (the
\* same inverse noise matrix and confident joint among them) and store the
\* same noise mask, inverse noise matrix, confident joint, K, ps and py.
C9_MaskIgnoresPulearning ==
    (FitCalled /\ IsSome(call.pulearning)) =>
        \E t \in {WithoutPulearning} :
            /\ t.raised = ret.raised
            /\ PruningInputs(t.log) = PruningInputs(log)
            /\ t.noise_mask = noise_mask
            /\ t.inverse_noise_matrix = inverse_noise_matrix
            /\ t.confident_joint = confident_joint
            /\ t.K = K /\ t.ps = ps /\ t.py = py

\* fit returned with a noise-free class that changed the noise matrix and
\* the sample weights, and pruned an example
C9_Witness ==
    /\ FitReturned
    /\ IsSome(call.pulearning)
    /\ \E i \in Examples : Get(noise_mask)[i]
    /\ \E t \in {WithoutPulearning} :
           t.noise_matrix # noise_matrix /\ t.sample_weight # sample_weight

C2_ArtifactsRecomputed ==
    FitReturned =>
        /\ \A a \in Artifacts : stamp[a] = calls
        /\ IsSome(K) /\ IsSome(ps) /\ IsSome(py)
        /\ IsSome(noise_matrix) /\ IsSome(inverse_noise_matrix)
        /\ IsSome(noise_mask) /\ IsSome(sample_weight)
        /\ confident_joint # Unset

\* C7: a fit call that reaches the reweighting with a zero or undefined
\* diagonal entry in the noise matrix raises DegenerateClassError and does
\* not invoke the final training.
C7_DegenerateClassRaises ==
    (/\ FitCalled
     /\ stamp["noise_mask"] = calls
     /\ \E k \in 0..(Get(K) - 1) :
            Get(noise_matrix)[k][k] = Zero \/ ~IsFinite(Get(noise_matrix)[k][k]))
    => /\ ret.raised = "DegenerateClassError"
       /\ Invocations("clf.fit") = 0

\* C10: the artifacts the instance holds were all assigned by one call.
C10_ArtifactsOfOneCall ==
    \A a, b \in Artifacts \ {"py"} :
        (stamp[a] > 0 /\ stamp[b] > 0) => stamp[a] = stamp[b]

====
